---- MODULE Spec2Model ----
(***************************************************************************)
(* A state-machine model of the browser automation in src/llm_runner.py    *)
(* (clean_text, send_prompt, save_response, cmd_test, cmd_batch and the    *)
(* test-all / batch-all loops of main) and of run_persona in src/main.py.  *)
(* The functions without state of their own (clean_text, find_input,       *)
(* send_prompt, the reading of the prompts file) are also applied to       *)
(* arguments drawn from bounded sets, one call per behaviour.              *)
(*                                                                         *)
(* Texts and names are sequences of characters; a character is one of the  *)
(* class representatives below.  Time is counted in ticks of TickMs        *)
(* milliseconds, the length of the fixed pauses of send_prompt.            *)
(***************************************************************************)
EXTENDS Integers, Sequences, FiniteSets, TLC

VARIABLES
    llms,           \* main: the provider profiles of config.yaml, in order
    delay,          \* main: args.delay, seconds
    fs_profiles,    \* file system: providers whose profiles/<name> directory exists
    fs_state,       \* file system: providers whose stored session state exists
                    \* (storage_state.json; cookies_<name>.json of setup_cookies)
    files,          \* file system: responses/, a set of [path, content]
    now,            \* wall clock, in ticks
    page,           \* the live page: its response elements in document order
    \* ---- cmd_test and the test-all loop
    tmain, ti, results,
    tpc, browser, context, pw, pending, tresult,
    hl_outcome, headful_tried,
    hf_outcome,     \* history: how the headful attempt of cmd_test went
    \* ---- cmd_batch and the batch-all loop
    bmain, bi, all_results, summary_file,
    bpc, honeypots, total_prompts, success_count, failed_count,
    hp_idx, p_idx, response, exc, page_alive, ctx, bresult,
    data,           \* the parsed prompts file
    log,            \* history: the send_prompt calls made, in order
    invoked,        \* history: the providers cmd_batch was invoked for
    \* ---- main.py: run_persona
    rpc, r_persona, r_idx, r_k, r_results, r_saved,
    r_obtained,     \* history: every result a run_batch call produced
    \* ---- one call of a function
    fn, arg, out,   \* the function called, its arguments, what it returned
    \* ---- the setup commands (llm_runner.py setup, setup_cookies.py)
    spc, s_i,
    cfg,            \* config.yaml on disk: its playwright_llms list
    cfg0,           \* history: config.yaml as it was when the command started
    args_name,      \* --name
    updated,        \* the list of results the loop builds
    heap,           \* the dicts yaml.safe_load made, by object identity
    replaced,       \* history: the providers whose selectors were replaced
    save_answer     \* history: the operator's answer to "save?", if asked

callVars  == <<fn, arg, out>>
setupVars == <<spc, s_i, cfg, cfg0, args_name, updated, heap, replaced,
               save_answer>>
\* what no test, batch or study command changes
envVars   == <<llms, delay, fs_profiles, fs_state, callVars, setupVars>>
testVars  == <<tmain, ti, results, tpc, browser, context, pw, pending, tresult,
               hl_outcome, headful_tried, hf_outcome>>
batchVars == <<bmain, bi, all_results, summary_file, bpc, honeypots,
               total_prompts, success_count, failed_count, hp_idx, p_idx,
               response, exc, page_alive, ctx, bresult, data, log, invoked>>
runVars   == <<rpc, r_persona, r_idx, r_k, r_results, r_saved, r_obtained>>
vars      == <<envVars, files, now, page, testVars, batchVars, runVars>>

---------------------------------------------------------------------------
(* Characters and texts *)

\* ASCII letters and digits; "h" and "hp" stand for the words honeypots and
\* honeypot, which only occur whole
AsciiWord  == {"a", "b", "h", "hp", "1", "2", "3", "4"}
AsciiPunct == {"-", "_", "."}       \* other printable ASCII
AsciiSpace == {"SP", "NL"}          \* ASCII white space
Latin      == {"EACUTE"}            \* a letter outside ASCII, inside the BMP
Astral     == {"EMOJI"}             \* a code point in U+10000..U+10FFFF
UniSpace   == {"NBSP"}              \* white space outside ASCII (U+00A0)
Ascii      == AsciiWord \cup AsciiPunct \cup AsciiSpace
Chars      == Ascii \cup Latin \cup Astral \cup UniSpace
\* what \s matches and str.strip() removes
Space      == AsciiSpace \cup UniSpace

\* str.isalnum(): letters and digits of any script
IsAlnum(c) == c \in AsciiWord \cup Latin

sanitize_name(name) ==
    [i \in DOMAIN name |->
        IF IsAlnum(name[i]) \/ name[i] \in {"-", "_"} THEN name[i] ELSE "_"]

\* re.sub(r'\s+', ' ', text): every run of white space becomes one space
RECURSIVE CollapseSpace(_)
CollapseSpace(t) ==
    IF t = <<>> THEN <<>>
    ELSE LET rest == CollapseSpace(Tail(t))
         IN  IF Head(t) \in Space
             THEN IF rest # <<>> /\ Head(rest) = "SP" THEN rest
                  ELSE <<"SP">> \o rest
             ELSE <<Head(t)>> \o rest

\* str.strip()
RECURSIVE LStrip(_)
LStrip(t) == IF t # <<>> /\ Head(t) \in Space THEN LStrip(Tail(t)) ELSE t

RECURSIVE RStrip(_)
RStrip(t) ==
    IF t # <<>> /\ t[Len(t)] \in Space
    THEN RStrip(SubSeq(t, 1, Len(t) - 1)) ELSE t

Strip(t) == RStrip(LStrip(t))

\* a clean_text that collapses the white space before it removes characters
clean_text_collapse_first(text) ==
    LET t0 == Strip(CollapseSpace(text))
        t1 == SelectSeq(t0, LAMBDA c : c \notin Astral)
    IN  SelectSeq(t1, LAMBDA c : c \in Ascii)

\* a clean_text that removes the astral characters only
clean_text_keep_bmp(text) ==
    Strip(CollapseSpace(SelectSeq(text, LAMBDA c : c \notin Astral)))

clean_text(text) ==
    LET t1 == SelectSeq(text, LAMBDA c : c \notin Astral)
        t2 == SelectSeq(t1, LAMBDA c : c \in Ascii)
    IN  Strip(CollapseSpace(t2))

---------------------------------------------------------------------------
(* Time *)

\* send_prompt's pauses between typing the prompt and the wait for the response
SettleMs  == 300
PressMs   == 100
\* One tick is the time send_prompt pauses on its own.  Only the pauses the
\* code asks for are counted: the clock is a lower bound of the elapsed time.
TickMs    == SettleMs + PressMs + PressMs
SubmitTicks == (SettleMs + PressMs + PressMs) \div TickMs
\* datetime.now().strftime("%Y%m%d_%H%M%S"): one-second resolution
Timestamp(t) == (t * TickMs) \div 1000
DelayTicks(seconds) == (seconds * 1000) \div TickMs

---------------------------------------------------------------------------
(* Provider profiles *)

alpha == <<"a">>
beta  == <<"b", "SP">>
Providers == {alpha, beta}

\* llm.get("wait_time", 10000), in milliseconds: the two profiles of the
\* modelled configuration, one that reads at once and one that waits a second
wait_time(name) == IF name = alpha THEN 0 ELSE 1000
WaitTicks(name) == wait_time(name) \div TickMs

---------------------------------------------------------------------------
(* The page and send_prompt *)

\* A response element of the page: the submission it answers (<<0, 0>> for an
\* element the page showed before any prompt of this run) and its inner text.
OldReply == [reply_to |-> <<0, 0>>, text |-> <<"b", "b">>]

\* What the provider renders within the wait, when it renders anything
ReplyTexts == { <<"a", "SP", "EMOJI", "b">>,    \* an answer
                <<"a", "EMOJI">>,              \* one letter and an icon
                <<"SP", "a", "NL">>,           \* a cursor
                <<"EACUTE", "EACUTE">> }       \* no ASCII at all

\* Optional[str]: None, or the text with (history) the element it was read from
NoneResp == [some |-> FALSE, text |-> <<>>, src |-> <<0, 0>>]
Truthy(r) == r.some /\ r.text # <<>>

\* How one send_prompt call can go: the input is located or not; the reply to
\* this submission is in the page when the wait is over, or is not (the
\* submission did not dispatch, or the reply came later)
SendEnvs ==
    { [input |-> FALSE, rendered |-> FALSE, text |-> <<>>],
      [input |-> TRUE,  rendered |-> FALSE, text |-> <<>>] }
    \cup { [input |-> TRUE, rendered |-> TRUE, text |-> t] : t \in ReplyTexts }

PageAfterWait(pg, pid, env) ==
    IF env.rendered THEN Append(pg, [reply_to |-> pid, text |-> env.text]) ELSE pg

\* a read of the first match instead of the last
ReadFirst(pg) ==
    IF pg = <<>> THEN NoneResp
    ELSE LET el   == pg[1]
             text == Strip(el.text)
         IN  IF text # <<>> /\ Len(text) > 1
             THEN [some |-> TRUE, text |-> clean_text(text), src |-> el.reply_to]
             ELSE NoneResp

\* page.locator(response_sel).last, inner_text().strip(), the length test
ReadLast(pg) ==
    IF pg = <<>> THEN NoneResp          \* inner_text times out: except, None
    ELSE LET el   == pg[Len(pg)]
             text == Strip(el.text)
         IN  IF text # <<>> /\ Len(text) > 1
             THEN [some |-> TRUE, text |-> clean_text(text), src |-> el.reply_to]
             ELSE NoneResp

\* The whole call: the page afterwards and the value returned
send_prompt_page(pg, pid, env) ==
    IF env.input THEN PageAfterWait(pg, pid, env) ELSE pg
send_prompt(pg, pid, env) ==
    IF env.input THEN ReadLast(PageAfterWait(pg, pid, env)) ELSE NoneResp
send_prompt_ticks(name, env) ==
    IF env.input THEN SubmitTicks + WaitTicks(name) ELSE 0

---------------------------------------------------------------------------
(* The sink *)

SavePath(llm_name, honeypot_name, t) ==
    [dir  |-> IF honeypot_name # <<>> THEN sanitize_name(honeypot_name) ELSE <<>>,
     file |-> <<sanitize_name(llm_name), Timestamp(t)>>]

\* open(filepath, "w"): the file is created, or truncated and rewritten
save_response(fs, t, llm_name, prompt, resp, honeypot_name, pid) ==
    LET path == SavePath(llm_name, honeypot_name, t)
        rec  == [path |-> path,
                 content |-> [provider |-> llm_name, honeypot |-> honeypot_name,
                              prompt |-> prompt, response |-> resp.text,
                              pid |-> pid, src |-> resp.src]]
    IN  {f \in fs : f.path # path} \cup {rec}

\* args.prompt
TestPrompt == "hello"


\* argparse's default of --delay, seconds
DefaultDelay == 5

ProviderLists == { <<alpha, beta>>, <<beta, alpha>>, <<beta>> }

\* The page as the provider serves it to a restored session: a new chat, or
\* the transcript of an earlier one
FreshPages == { <<>>, <<OldReply>> }

---------------------------------------------------------------------------
(* Idle values of the three command's variables *)

Unbound == [var |-> "unbound", headless |-> "none", headful |-> "none"]

TestIdle ==
    /\ tmain = "off" /\ ti = 0 /\ results = <<>>
    /\ tpc = "idle" /\ browser = Unbound /\ context = Unbound /\ pw = "none"
    /\ pending = "none" /\ tresult = FALSE
    /\ hl_outcome = "none" /\ headful_tried = FALSE /\ hf_outcome = "none"

BatchIdle ==
    /\ bmain = "off" /\ bi = 0 /\ all_results = <<>> /\ summary_file = <<>>
    /\ bpc = "idle" /\ honeypots = <<>> /\ total_prompts = 0
    /\ success_count = 0 /\ failed_count = 0 /\ hp_idx = 0 /\ p_idx = 0
    /\ response = NoneResp /\ exc = "none" /\ page_alive = FALSE
    /\ ctx = "none" /\ bresult = <<>> /\ data = <<>> /\ log = <<>>
    /\ invoked = <<>>

RunIdle ==
    /\ rpc = "off" /\ r_persona = 0 /\ r_idx = 0 /\ r_k = 0
    /\ r_results = <<>> /\ r_saved = {} /\ r_obtained = {}

CallIdle ==
    fn = "none" /\ arg = <<>> /\ out = <<>>

SetupIdle ==
    /\ spc = "off" /\ s_i = 0 /\ cfg = <<>> /\ cfg0 = <<>>
    /\ args_name = <<>> /\ updated = <<>> /\ heap = <<>> /\ replaced = {}
    /\ save_answer = "not asked"

InitEnv ==
    /\ llms \in ProviderLists
    /\ fs_profiles \in SUBSET Providers
    /\ fs_state \in SUBSET fs_profiles
    /\ files = {}
    /\ now \in {0, 1}
    /\ page = <<>>

---------------------------------------------------------------------------
(* cmd_test, src/llm_runner.py 192-264, and the test / test-all loop of main *)

\* How far one attempt gets: the step that raises, or "none"
AttemptFaults == {"launch", "context", "page", "goto", "none"}

\* lines 194-205: no storage state, no attempt
TestEntry ==
    /\ tmain = "loop" /\ tpc = "entry"
    /\ IF llms[ti] \notin fs_state
       THEN /\ tpc' = "returned" /\ tresult' = FALSE /\ pw' = pw
       ELSE /\ tpc' = "headless" /\ pw' = "running" /\ UNCHANGED tresult
    /\ UNCHANGED <<envVars, files, now, page, tmain, ti, results, browser,
                   context, pending, hl_outcome, headful_tried, hf_outcome,
                   batchVars, runVars>>

\* The statements both try blocks share (209-227 and 240-257): launch, new
\* context, new page, goto, send_prompt, save_response.  `mode` is "headless"
\* or "headful"; the names browser and context are bound as far as the
\* attempt gets.
AttemptBody(mode, fault, pg0, env) ==
    /\ browser' = IF fault = "launch" THEN browser
                  ELSE [browser EXCEPT !.var = mode, ![mode] = "open"]
    /\ context' = IF fault \in {"launch", "context"} THEN context
                  ELSE [context EXCEPT !.var = mode, ![mode] = "open"]
    /\ IF fault = "none"
       THEN LET r == send_prompt(pg0, <<1, 1>>, env)
                t == now + send_prompt_ticks(llms[ti], env)
            IN  /\ page' = send_prompt_page(pg0, <<1, 1>>, env)
                /\ now' = t
                /\ files' = IF Truthy(r)
                            THEN save_response(files, t, llms[ti], TestPrompt,
                                               r, <<>>, <<1, 1>>)
                            ELSE files
                /\ pending' = IF Truthy(r) THEN "return_true"
                              ELSE IF mode = "headless" THEN "fallthrough"
                              ELSE "return_false"
       ELSE /\ page' = IF fault = "goto" THEN pg0 ELSE <<>>
            /\ pending' = IF mode = "headless" THEN "fallthrough" ELSE "raise"
            /\ UNCHANGED <<now, files>>

\* lines 208-232: try headless first; except Exception swallows what it raises
TestHeadless ==
    /\ tmain = "loop" /\ tpc = "headless"
    /\ \E fault \in AttemptFaults, pg0 \in FreshPages, env \in SendEnvs :
          /\ AttemptBody("headless", fault, pg0, env)
          /\ hl_outcome' = IF fault # "none" THEN fault
                           ELSE IF Truthy(send_prompt(pg0, <<1, 1>>, env))
                           THEN "ok" ELSE "empty"
    /\ tpc' = "headless_finally"
    /\ UNCHANGED <<envVars, tmain, ti, results, pw, tresult, headful_tried,
                   hf_outcome, batchVars, runVars>>

\* lines 234-236: context.close(), browser.close(); a name the try block never
\* bound raises UnboundLocalError, which leaves cmd_test
TestHeadlessFinally ==
    /\ tmain = "loop" /\ tpc = "headless_finally"
    /\ IF context.var = "unbound"
       THEN /\ tpc' = "raised"
            /\ UNCHANGED <<browser, context, tresult>>
       ELSE /\ context' = [context EXCEPT ![context.var] = "closed"]
            /\ browser' = [browser EXCEPT ![browser.var] = "closed"]
            /\ IF pending = "return_true"
               THEN tpc' = "returned" /\ tresult' = TRUE
               ELSE tpc' = "headful" /\ UNCHANGED tresult
    /\ UNCHANGED <<envVars, files, now, page, tmain, ti, results, pw, pending,
                   hl_outcome, headful_tried, hf_outcome,
                   batchVars, runVars>>

\* lines 239-259: try headful; nothing is caught here
TestHeadful ==
    /\ tmain = "loop" /\ tpc = "headful"
    /\ \E fault \in AttemptFaults, pg0 \in FreshPages, env \in SendEnvs :
          /\ AttemptBody("headful", fault, pg0, env)
          /\ hf_outcome' = IF fault # "none" THEN fault
                           ELSE IF Truthy(send_prompt(pg0, <<1, 1>>, env))
                           THEN "ok" ELSE "empty"
    /\ headful_tried' = TRUE
    /\ tpc' = "headful_finally"
    /\ UNCHANGED <<envVars, tmain, ti, results, pw, tresult, hl_outcome,
                   batchVars, runVars>>

\* lines 261-264: close whatever the names are bound to (closing a closed
\* context or browser does nothing), stop the driver, then return or re-raise
TestHeadfulFinally ==
    /\ tmain = "loop" /\ tpc = "headful_finally"
    /\ context' = [context EXCEPT ![context.var] = "closed"]
    /\ browser' = [browser EXCEPT ![browser.var] = "closed"]
    /\ pw' = "stopped"
    /\ IF pending = "raise"
       THEN tpc' = "raised" /\ UNCHANGED tresult
       ELSE tpc' = "returned" /\ tresult' = (pending = "return_true")
    /\ UNCHANGED <<envVars, files, now, page, tmain, ti, results, pending,
                   hl_outcome, headful_tried, hf_outcome,
                   batchVars, runVars>>

\* main, lines 403-407: for llm in llms: ok = await cmd_test(...)
TestMainCall ==
    /\ tmain = "loop" /\ tpc = "idle" /\ ti < Len(llms)
    /\ ti' = ti + 1
    /\ tpc' = "entry"
    /\ browser' = Unbound /\ context' = Unbound /\ pw' = "none"
    /\ pending' = "none" /\ tresult' = FALSE
    /\ hl_outcome' = "none" /\ headful_tried' = FALSE /\ hf_outcome' = "none"
    /\ page' = <<>>
    /\ UNCHANGED <<envVars, files, now, tmain, results, batchVars, runVars>>

TestMainReturn ==
    /\ tmain = "loop" /\ tpc = "returned"
    /\ results' = [n \in DOMAIN results \cup {llms[ti]} |->
                      IF n = llms[ti] THEN tresult ELSE results[n]]
    /\ tpc' = "idle"
    /\ UNCHANGED <<envVars, files, now, page, tmain, ti, browser, context, pw,
                   pending, tresult, hl_outcome, headful_tried, hf_outcome,
                   batchVars, runVars>>

\* an exception of cmd_test is caught nowhere in main
TestMainRaise ==
    /\ tmain = "loop" /\ tpc = "raised"
    /\ tmain' = "raised"
    /\ UNCHANGED <<envVars, files, now, page, ti, results, tpc, browser, context,
                   pw, pending, tresult, hl_outcome, headful_tried, hf_outcome,
                   batchVars, runVars>>

\* lines 409-420: the summary
TestMainSummary ==
    /\ tmain = "loop" /\ tpc = "idle" /\ ti = Len(llms)
    /\ tmain' = "done"
    /\ UNCHANGED <<envVars, files, now, page, ti, results, tpc, browser, context,
                   pw, pending, tresult, hl_outcome, headful_tried, hf_outcome,
                   batchVars, runVars>>

InitTest ==
    /\ InitEnv /\ delay = DefaultDelay
    /\ tmain = "loop" /\ ti = 0 /\ results = <<>>
    /\ tpc = "idle" /\ browser = Unbound /\ context = Unbound /\ pw = "none"
    /\ pending = "none" /\ tresult = FALSE
    /\ hl_outcome = "none" /\ headful_tried = FALSE /\ hf_outcome = "none"
    /\ BatchIdle /\ RunIdle /\ CallIdle /\ SetupIdle

NextTest ==
    \/ TestMainCall \/ TestEntry \/ TestHeadless \/ TestHeadlessFinally
    \/ TestHeadful \/ TestHeadfulFinally \/ TestMainReturn \/ TestMainRaise
    \/ TestMainSummary

SpecTest == InitTest /\ [][NextTest]_vars

---------------------------------------------------------------------------
(* Claims about cmd_test *)

\* C1: when the stored session state exists and the headless attempt fails
\* (send_prompt returns no response, or launch, context creation, page
\* creation or navigation raises), cmd_test neither returns False nor raises
\* without a headful attempt having been started.
C1_HeadfulBeforeFailure ==
    ( /\ tpc \in {"returned", "raised"}
      /\ hl_outcome \in {"empty", "launch", "context", "page", "goto"}
      /\ ~(tpc = "returned" /\ tresult) )
    => headful_tried

\* C14: a failure of navigation, element location, submission or extraction,
\* in the headless or in the headful attempt, never leaves cmd_test as an
\* exception: cmd_test returns and test-all goes on.
C14_FailuresBecomeFalse ==
    (hl_outcome \in {"goto", "empty"} /\ hf_outcome \in {"goto", "empty"})
        => (tpc # "raised" /\ tmain # "raised")

\* C23: cmd_test makes at most two attempts, in order: the headful attempt
\* only after a failed headless one, none after a headless response; after a
\* failed headful attempt cmd_test ends, and it ends returning False.
C23_TwoOrderedAttempts ==
    /\ headful_tried => hl_outcome \in {"launch", "context", "page", "goto", "empty"}
    /\ hl_outcome = "ok" =>
          (~headful_tried /\ browser.headful = "none" /\ tpc # "headful")
    /\ (hf_outcome \in {"launch", "context", "page", "goto", "empty"}
            /\ tpc \in {"returned", "raised"})
          => (tpc = "returned" /\ ~tresult)

\* C24: the headless context and browser are closed before the headful ones
\* are opened, and when cmd_test has returned or raised, no context and no
\* browser it opened is open and the driver it started is stopped.
C24_EverythingClosed ==
    /\ ~(context.headless = "open" /\ context.headful = "open")
    /\ ~(browser.headless = "open" /\ browser.headful = "open")
    /\ tpc \in {"returned", "raised"} =>
          /\ context.headless # "open" /\ context.headful # "open"
          /\ browser.headless # "open" /\ browser.headful # "open"
          /\ pw # "running"

---------------------------------------------------------------------------
(* The prompts file, as json.load / yaml.safe_load return it *)

P1 == <<"a">>
P2 == <<"b">>
\* the key "honeypots", written as one letter
HoneypotsKey == <<"h">>

\* A list of prompt strings, a list of {name, prompts} objects, a scalar
PromptList(ps)  == [t |-> "prompts", v |-> ps]
EntryList(es)   == [t |-> "entries", v |-> es]
Scalar          == [t |-> "scalar", v |-> <<>>]
Entry(n, ps)    == [has_name |-> TRUE, name |-> n, prompts |-> ps]
Anonymous(ps)   == [has_name |-> FALSE, name |-> <<>>, prompts |-> ps]
Dict(items)     == [kind |-> "dict", items |-> items, list |-> <<>>]
List(es)        == [kind |-> "list", items |-> <<>>, list |-> es]

\* The longest prompt list of the modelled files
MaxPrompts == 2
PromptTexts == <<"q1", "q2", "q3", "q4">>

MappingFile   == Dict(<< [key |-> P1,
                          val |-> PromptList(SubSeq(PromptTexts, 1, MaxPrompts))] >>)
HoneypotsFile == Dict(<< [key |-> HoneypotsKey,
                          val |-> EntryList(<< Entry(P1, <<"q1">>),
                                               Anonymous(<<"q2">>) >>)] >>)
ListFile      == List(<< Entry(P1, <<>>), Entry(P2, <<"q1">>) >>)
ScalarFile    == Dict(<< [key |-> P1, val |-> Scalar] >>)
PromptFiles   == {MappingFile, HoneypotsFile, ListFile, ScalarFile}

\* f"honeypot_{i}"
Digits == <<"1", "2", "3", "4">>
DefaultName(i) == <<"hp", "_", Digits[i]>>

\* lines 288-289 and 295-296
FromEntries(es) ==
    [i \in DOMAIN es |->
        [name    |-> IF es[i].has_name THEN es[i].name ELSE DefaultName(i),
         prompts |-> es[i].prompts]]

HasKey(d, k) == \E i \in DOMAIN d.items : d.items[i].key = k
Value(d, k)  == d.items[CHOOSE i \in DOMAIN d.items : d.items[i].key = k].val

\* lines 286-299: the three shapes.  "raise": h.get on something that is no
\* object raises where nothing catches it.
ParseHoneypots(d) ==
    IF d.kind = "dict" /\ HasKey(d, HoneypotsKey)
    THEN LET v == Value(d, HoneypotsKey)
         IN  IF v.t = "entries" \/ v.v = <<>>
             THEN [status |-> "ok", hps |-> FromEntries(v.v)]
             ELSE [status |-> "raise", hps |-> <<>>]
    ELSE IF d.kind = "dict"
            /\ \A i \in DOMAIN d.items : d.items[i].val.t # "scalar"
    THEN [status |-> "ok",
          hps |-> [i \in DOMAIN d.items |->
                     [name |-> d.items[i].key, prompts |-> d.items[i].val.v]]]
    ELSE IF d.kind = "list"
    THEN [status |-> "ok", hps |-> FromEntries(d.list)]
    ELSE [status |-> "unrecognized", hps |-> <<>>]

\* line 302: sum(len(prompts) for _, prompts in honeypots)
RECURSIVE TotalPrompts(_)
TotalPrompts(hps) ==
    IF hps = <<>> THEN 0 ELSE Len(Head(hps).prompts) + TotalPrompts(Tail(hps))

---------------------------------------------------------------------------
(* cmd_batch, src/llm_runner.py 266-364, and the batch / batch-all loop *)

\* a batch that launches its context visibly
LaunchVisible == FALSE
\* line 306: launch_persistent(profile_dir, headless=True)
BatchHeadless == TRUE

\* finally: page.wait_for_timeout(2000)
TeardownMs == 2000

\* a loop that leaves a honeypot after its first prompt
AfterPromptSkipRest(hps, h, p) ==
    [h |-> h + 1, p |-> 0, called |-> h < Len(hps),
     ms |-> IF h < Len(hps) THEN delay * 2000 ELSE 0]
\* a loop that pauses between personas as it does between prompts
AfterPromptSameDelay(hps, h, p) ==
    IF p < Len(hps[h].prompts)
    THEN [h |-> h, p |-> p + 1, called |-> TRUE, ms |-> delay * 1000]
    ELSE [h |-> h + 1, p |-> 0, called |-> h < Len(hps),
          ms |-> IF h < Len(hps) THEN delay * 1000 ELSE 0]
\* lines 336-343 and the two loop heads: where the loops go after the body for
\* prompt p of honeypot h, and the pause made on the way (called: whether
\* wait_for_timeout is called at all)
AfterPrompt(hps, h, p) ==
    IF p < Len(hps[h].prompts)
    THEN [h |-> h, p |-> p + 1, called |-> TRUE, ms |-> delay * 1000]
    ELSE [h |-> h + 1, p |-> 0, called |-> h < Len(hps),
          ms |-> IF h < Len(hps) THEN delay * 2000 ELSE 0]

\* line 331
CountSuccess(n) == n + 1
\* a failure counted twice
CountFailureTwice(n) == n + 2
\* line 333
CountFailure(n) == n + 1

\* line 276 and line 299: the early results
EarlyResult == [success |-> 0, failed |-> 0, total |-> 0]
\* lines 359-364
FinalResult == [llm |-> llms[bi], success |-> success_count,
                failed |-> failed_count, total |-> total_prompts]

BatchFrame == <<envVars, runVars, testVars, bmain, bi, all_results, summary_file,
                data, invoked>>

\* lines 268-276
BatchEntry ==
    /\ bmain = "loop" /\ bpc = "entry"
    /\ IF llms[bi] \notin fs_profiles
       THEN bpc' = "returned" /\ bresult' = EarlyResult
       ELSE bpc' = "load" /\ UNCHANGED bresult
    /\ UNCHANGED <<BatchFrame, files, now, page, honeypots, total_prompts,
                   success_count, failed_count, hp_idx, p_idx, response, exc,
                   page_alive, ctx, log>>

\* lines 278-303
BatchLoad ==
    /\ bmain = "loop" /\ bpc = "load"
    /\ LET parsed == ParseHoneypots(data)
       IN  /\ honeypots' = parsed.hps
           /\ total_prompts' = TotalPrompts(parsed.hps)
           /\ bpc' = CASE parsed.status = "ok" -> "launch"
                       [] parsed.status = "unrecognized" -> "returned"
                       [] OTHER -> "raised"
           /\ bresult' = IF parsed.status = "unrecognized" THEN EarlyResult
                         ELSE bresult
           /\ exc' = IF parsed.status = "raise" THEN "parse" ELSE exc
    /\ UNCHANGED <<BatchFrame, files, now, page, success_count, failed_count,
                   hp_idx, p_idx, response, page_alive, ctx, log>>

\* lines 306-310: outside the try block, so what raises here leaves cmd_batch
BatchLaunch ==
    /\ bmain = "loop" /\ bpc = "launch"
    /\ \E fault \in {"launch", "new_page", "none"} :
          /\ ctx' = IF fault = "launch" THEN ctx
                    ELSE IF BatchHeadless THEN "headless" ELSE "headful"
          /\ exc' = IF fault = "none" THEN exc ELSE fault
          /\ bpc' = IF fault = "none" THEN "goto" ELSE "raised"
          /\ page_alive' = (fault = "none")
    /\ success_count' = 0 /\ failed_count' = 0
    /\ UNCHANGED <<BatchFrame, files, now, page, honeypots, total_prompts,
                   hp_idx, p_idx, response, bresult, log>>

\* lines 313-314: goto loads the page, times out, or finds the browser gone
BatchGoto ==
    /\ bmain = "loop" /\ bpc = "goto"
    /\ \E outcome \in {"ok", "timeout", "crash"}, pg0 \in FreshPages :
          /\ page' = IF outcome = "ok" THEN pg0 ELSE <<>>
          /\ page_alive' = (outcome # "crash")
          /\ exc' = IF outcome = "ok" THEN exc ELSE "goto"
          /\ bpc' = IF outcome = "ok" THEN "hp_head" ELSE "finally"
    /\ hp_idx' = 1 /\ p_idx' = 0
    /\ UNCHANGED <<BatchFrame, files, now, honeypots, total_prompts,
                   success_count, failed_count, response, ctx, bresult, log>>

\* line 317 (and 341-343 for a honeypot without prompts): the outer loop's head
BatchLoopHead ==
    /\ bmain = "loop" /\ bpc = "hp_head"
    /\ IF hp_idx > Len(honeypots)
       THEN bpc' = "complete" /\ UNCHANGED <<hp_idx, p_idx, now>>
       ELSE IF honeypots[hp_idx].prompts = <<>>
       THEN LET nxt == AfterPrompt(honeypots, hp_idx, 0)
            IN  /\ hp_idx' = nxt.h /\ p_idx' = nxt.p
                /\ now' = now + nxt.ms \div TickMs
                /\ bpc' = "hp_head"
       ELSE bpc' = "submit" /\ p_idx' = 1 /\ UNCHANGED <<hp_idx, now>>
    /\ UNCHANGED <<BatchFrame, files, page, honeypots, total_prompts,
                   success_count, failed_count, response, exc, page_alive, ctx,
                   bresult, log>>

PromptId == <<hp_idx, p_idx>>

\* What the wait of one batch prompt can end with: nothing new on the page, an
\* answer, or a reply without any ASCII text
BatchEnvs ==
    {e \in SendEnvs :
        e.input /\ e.text \in {<<>>, <<"a", "SP", "EMOJI", "b">>,
                                <<"EACUTE", "EACUTE">>} }

\* line 327, send_prompt lines 134-143: locate the input, click, type, Enter
BatchSubmit ==
    /\ bmain = "loop" /\ bpc = "submit"
    /\ log' = Append(log, [pid |-> PromptId,
                           prompt |-> honeypots[hp_idx].prompts[p_idx],
                           headless |-> (ctx = "headless"),
                           counted |-> success_count + failed_count,
                           done |-> FALSE, ok |-> FALSE,
                           at |-> now, ended |-> now])
    /\ \E found \in BOOLEAN :
          IF found
          THEN /\ now' = now + SubmitTicks
               /\ bpc' = "read"
               /\ UNCHANGED response
          ELSE /\ response' = NoneResp
               /\ bpc' = "returning"
               /\ UNCHANGED now
    /\ UNCHANGED <<BatchFrame, files, page, honeypots, total_prompts,
                   success_count, failed_count, hp_idx, p_idx, exc, page_alive,
                   ctx, bresult>>

\* send_prompt lines 145-159: wait wait_time, read the last response element
BatchRead ==
    /\ bmain = "loop" /\ bpc = "read"
    /\ \E env \in BatchEnvs :
          /\ page' = PageAfterWait(page, PromptId, env)
          /\ response' = ReadLast(PageAfterWait(page, PromptId, env))
    /\ now' = now + WaitTicks(llms[bi])
    /\ bpc' = "returning"
    /\ UNCHANGED <<BatchFrame, files, honeypots, total_prompts, success_count,
                   failed_count, hp_idx, p_idx, exc, page_alive, ctx, bresult,
                   log>>

\* lines 329-333: send_prompt has returned; save and count
BatchRecord ==
    /\ bmain = "loop" /\ bpc = "returning"
    /\ log' = [log EXCEPT ![Len(log)].done = TRUE,
                           ![Len(log)].ok = Truthy(response),
                           ![Len(log)].ended = now]
    /\ IF Truthy(response)
       THEN /\ files' = save_response(files, now, llms[bi],
                                      honeypots[hp_idx].prompts[p_idx], response,
                                      honeypots[hp_idx].name, PromptId)
            /\ success_count' = CountSuccess(success_count)
            /\ UNCHANGED failed_count
       ELSE /\ failed_count' = CountFailure(failed_count)
            /\ UNCHANGED <<files, success_count>>
    /\ bpc' = "delay"
    /\ UNCHANGED <<BatchFrame, now, page, honeypots, total_prompts, hp_idx,
                   p_idx, response, exc, page_alive, ctx, bresult>>

\* lines 336-343: the pause before the next prompt or the next honeypot;
\* wait_for_timeout raises when the page is gone
BatchDelay ==
    /\ bmain = "loop" /\ bpc = "delay"
    /\ LET nxt == AfterPrompt(honeypots, hp_idx, p_idx)
       IN  \E crash \in {FALSE, nxt.called} :
              IF crash
              THEN /\ page_alive' = FALSE /\ exc' = "wait" /\ bpc' = "finally"
                   /\ UNCHANGED <<hp_idx, p_idx, now>>
              ELSE /\ hp_idx' = nxt.h /\ p_idx' = nxt.p
                   /\ now' = now + nxt.ms \div TickMs
                   /\ bpc' = IF nxt.p = 0 THEN "hp_head" ELSE "submit"
                   /\ UNCHANGED <<page_alive, exc>>
    /\ UNCHANGED <<BatchFrame, files, page, honeypots, total_prompts,
                   success_count, failed_count, response, ctx, bresult, log>>

\* lines 345-349
BatchComplete ==
    /\ bmain = "loop" /\ bpc = "complete"
    /\ bpc' = "finally"
    /\ UNCHANGED <<BatchFrame, files, now, page, honeypots, total_prompts,
                   success_count, failed_count, hp_idx, p_idx, response, exc,
                   page_alive, ctx, bresult, log>>

\* An operator interrupt while a send_prompt or a pause is awaited: no
\* "except Exception" catches it, the finally block runs
BatchInterrupt ==
    /\ bmain = "loop" /\ bpc \in {"submit", "read", "delay"}
    /\ exc' = "interrupt"
    /\ bpc' = "finally"
    /\ UNCHANGED <<BatchFrame, files, now, page, honeypots, total_prompts,
                   success_count, failed_count, hp_idx, p_idx, response,
                   page_alive, ctx, bresult, log>>

\* lines 351-364: except Exception prints; finally waits, closes the context
\* and stops the driver, each of which can raise; then the result is returned
BatchFinally ==
    /\ bmain = "loop" /\ bpc = "finally"
    /\ IF ~page_alive
       THEN /\ bpc' = "raised" /\ exc' = "wait"
            /\ UNCHANGED <<ctx, now, bresult>>
       ELSE \E close_fault \in BOOLEAN :
              /\ now' = now + TeardownMs \div TickMs
              /\ IF close_fault
                 THEN /\ bpc' = "raised" /\ exc' = "close"
                      /\ UNCHANGED <<ctx, bresult>>
                 ELSE /\ ctx' = "closed"
                      /\ bpc' = IF exc = "interrupt" THEN "raised" ELSE "returned"
                      /\ bresult' = IF exc = "interrupt" THEN bresult
                                    ELSE FinalResult
                      /\ UNCHANGED exc
    /\ UNCHANGED <<BatchFrame, files, page, honeypots, total_prompts,
                   success_count, failed_count, hp_idx, p_idx, response,
                   page_alive, log>>

BatchLocals == <<files, now, page, honeypots, total_prompts, success_count,
                 failed_count, hp_idx, p_idx, response, exc, page_alive, ctx,
                 bresult, log>>

\* main, lines 429-431: for llm in llms: result = await cmd_batch(...)
BatchMainCall ==
    /\ bmain = "loop" /\ bpc = "idle" /\ bi < Len(llms)
    /\ bi' = bi + 1
    /\ invoked' = Append(invoked, llms[bi + 1])
    /\ bpc' = "entry"
    /\ honeypots' = <<>> /\ total_prompts' = 0
    /\ success_count' = 0 /\ failed_count' = 0 /\ hp_idx' = 0 /\ p_idx' = 0
    /\ response' = NoneResp /\ exc' = "none" /\ page_alive' = FALSE
    /\ ctx' = "none" /\ bresult' = <<>> /\ log' = <<>> /\ page' = <<>>
    /\ UNCHANGED <<envVars, runVars, testVars, files, now, bmain, all_results,
                   summary_file, data>>

BatchMainReturn ==
    /\ bmain = "loop" /\ bpc = "returned"
    /\ all_results' = Append(all_results, bresult)
    /\ bpc' = "idle"
    /\ UNCHANGED <<envVars, runVars, testVars, BatchLocals, bmain, bi,
                   summary_file, data, invoked>>

\* an exception of cmd_batch is caught nowhere in main
BatchMainRaise ==
    /\ bmain = "loop" /\ bpc = "raised"
    /\ bmain' = "raised"
    /\ UNCHANGED <<envVars, runVars, testVars, BatchLocals, bpc, bi,
                   all_results, summary_file, data, invoked>>

\* lines 433-447: res['llm'] of every result, then the summary file is
\* written inside responses/, which exists if a response was ever saved
BatchMainSummary ==
    /\ bmain = "loop" /\ bpc = "idle" /\ bi = Len(llms)
    /\ \E dir_exists \in {TRUE, files # {}} :
          IF /\ \A i \in DOMAIN all_results : "llm" \in DOMAIN all_results[i]
             /\ dir_exists
          THEN bmain' = "done" /\ summary_file' = <<all_results>>
          ELSE bmain' = "raised" /\ UNCHANGED summary_file
    /\ UNCHANGED <<envVars, runVars, testVars, BatchLocals, bpc, bi,
                   all_results, data, invoked>>

InitBatch ==
    /\ llms \in ProviderLists
    \* launch_persistent makes the profile directory (line 76) before the login;
    \* storage_state.json is written after it (line 114), or never
    /\ fs_profiles \in SUBSET Providers /\ fs_state \in {fs_profiles, {}}
    /\ delay \in {0, DefaultDelay}
    /\ files = {} /\ now \in {0, 1} /\ page = <<>>
    /\ TestIdle /\ RunIdle /\ CallIdle /\ SetupIdle
    /\ bmain = "loop" /\ bi = 0 /\ all_results = <<>> /\ summary_file = <<>>
    /\ bpc = "idle" /\ honeypots = <<>> /\ total_prompts = 0
    /\ success_count = 0 /\ failed_count = 0 /\ hp_idx = 0 /\ p_idx = 0
    /\ response = NoneResp /\ exc = "none" /\ page_alive = FALSE
    /\ ctx = "none" /\ bresult = <<>> /\ log = <<>> /\ invoked = <<>>
    /\ data \in PromptFiles

NextBatch ==
    \/ BatchMainCall \/ BatchEntry \/ BatchLoad \/ BatchLaunch \/ BatchGoto
    \/ BatchLoopHead \/ BatchSubmit \/ BatchRead \/ BatchRecord \/ BatchDelay
    \/ BatchComplete \/ BatchInterrupt \/ BatchFinally
    \/ BatchMainReturn \/ BatchMainRaise \/ BatchMainSummary

SpecBatch == InitBatch /\ [][NextBatch]_vars

---------------------------------------------------------------------------
(* Claims about cmd_batch and batch-all *)

Done(lg)      == {i \in DOMAIN lg : lg[i].done}
Succeeded(lg) == {i \in DOMAIN lg : lg[i].done /\ lg[i].ok}
Failed(lg)    == {i \in DOMAIN lg : lg[i].done /\ ~lg[i].ok}
FilesOf(name) == {f \in files : f.content.provider = name}

\* The prompts of a batch in persona-list then prompt-list order
RECURSIVE Flat(_, _)
Flat(hps, h) ==
    IF h > Len(hps) THEN <<>>
    ELSE [p \in DOMAIN hps[h].prompts |->
             [pid |-> <<h, p>>, prompt |-> hps[h].prompts[p]]]
         \o Flat(hps, h + 1)

C3_ResponseAnswersItsPrompt ==
    \A f \in files : f.content.src = f.content.pid

\* C4: after a batch run the provider's records in the sink are as many as
\* the prompts attempted for it.
C4_OneRecordPerAttempt ==
    bpc = "returned" => Cardinality(FilesOf(llms[bi])) = Cardinality(Done(log))

\* C5: a record written to the sink is never overwritten: whatever is in the
\* sink stays there unchanged.
C5_RecordsNeverOverwritten ==
    [][\A f \in files : f \in files']_vars

\* C6: prompts are submitted in persona-list then prompt-list order, prompt
\* k+1 only after the outcome of prompt k has been counted, and a batch that
\* is not aborted submits every prompt exactly once.
C6_SubmissionOrder ==
    LET flat == Flat(honeypots, 1)
    IN  /\ Len(log) <= Len(flat)
        /\ \A i \in DOMAIN log :
              /\ log[i].pid = flat[i].pid
              /\ log[i].prompt = flat[i].prompt
              /\ log[i].counted = i - 1
              /\ i < Len(log) => log[i].done
        /\ bpc = "complete" => Len(log) = Len(flat)

C6_Witness ==
    /\ bpc = "complete" /\ Len(log) = 2
    /\ log[1].pid = <<1, 1>> /\ log[2].pid = <<2, 1>>

\* C7: every completed attempt increments exactly one of success_count and
\* failed_count by one; their sum is the number of completed attempts, never
\* exceeds total, and equals total when the batch completes normally.
C7_CountersMatchAttempts ==
    /\ success_count = Cardinality(Succeeded(log))
    /\ failed_count = Cardinality(Failed(log))
    /\ success_count + failed_count <= total_prompts
    /\ bpc = "complete" => success_count + failed_count = total_prompts

C7_Witness ==
    bpc = "complete" /\ success_count = 1 /\ failed_count = 1

\* C9: a hard failure while running one provider (launch, page creation,
\* navigation, a wait on a dead page, context teardown) aborts that provider
\* only: cmd_batch is still invoked for every provider of the list.
HardFailures == {"launch", "new_page", "goto", "wait", "close"}
C9_LaterProvidersStillRun ==
    (bmain = "raised" /\ exc \in HardFailures) => invoked = llms

\* C10: every provider's batch ends with a summary entry holding its
\* identifier and counts, and the aggregate summary is saved for all
\* providers of the run (an operator interrupt apart).
C10_SummaryForEveryProvider ==
    (bmain \in {"done", "raised"} /\ exc # "interrupt") =>
        /\ summary_file # <<>>
        /\ Len(all_results) = Len(llms)
        /\ \A i \in DOMAIN all_results :
              /\ "llm" \in DOMAIN all_results[i]
              /\ all_results[i].llm = llms[i]

\* C11: an operator interrupt never takes effect inside a prompt interaction:
\* when a batch is cancelled, the outcome of every prompt whose send_prompt
\* call was started has been recorded.
C11_CancelledAtPromptBoundary ==
    exc = "interrupt" => \A i \in DOMAIN log : log[i].done

\* The pause between the end of the i-th send_prompt call and the start of
\* the next, in ticks
Gap(i) == log[i + 1].at - log[i].ended
SamePersona(i) == log[i].pid[1] = log[i + 1].pid[1]

C26_NoSessionNoSubmission ==
    (bi > 0 /\ llms[bi] \notin fs_state) => (log = <<>> /\ ctx = "none")

---------------------------------------------------------------------------
(* src/main.py: main (97-131) and run_persona (19-63) *)

\* line 26, then config['playwright_llms'] (line 47)
api_models == << <<"openai">>, <<"anthropic">>, <<"gemini">>, <<"perplexity">>,
                 <<"mistral">> >>
Models == api_models \o llms

PersonaName    == data.items[r_persona].key
PersonaPrompts == data.items[r_persona].val.v

RunFrame == <<envVars, files, now, page, testVars, batchVars>>

\* main, lines 100-106 and 108-131: the next persona, or the end of the study
RunNextPersona ==
    /\ rpc = "persona"
    /\ IF r_persona < Len(data.items)
       THEN /\ r_persona' = r_persona + 1
            /\ r_idx' = 1 /\ r_k' = 0 /\ r_results' = <<>>
            /\ rpc' = "batch"
       ELSE /\ rpc' = "done"
            /\ UNCHANGED <<r_persona, r_idx, r_k, r_results>>
    /\ UNCHANGED <<RunFrame, r_saved, r_obtained>>

\* api_handler.run_batch / playwright_handler.run_batch (called at lines 31
\* and 50; the handlers are not part of the sources): one prompt of the batch
\* is answered and its result joins the list the call will return, or the
\* call raises and the list is gone with it
RunBatchStep ==
    /\ rpc = "batch"
    /\ \E outcome \in {"result", "raise"} :
          IF outcome = "result" /\ r_k < Len(PersonaPrompts)
          THEN /\ r_k' = r_k + 1
               /\ r_results' = Append(r_results, PersonaPrompts[r_k + 1])
               /\ r_obtained' = r_obtained \cup
                     {[persona |-> PersonaName, model |-> Models[r_idx],
                       prompt |-> PersonaPrompts[r_k + 1]]}
               /\ rpc' = "batch"
          ELSE IF outcome = "result"
          THEN /\ rpc' = "save"
               /\ UNCHANGED <<r_k, r_results, r_obtained>>
          ELSE /\ rpc' = "sleep"
               /\ r_results' = <<>>
               /\ UNCHANGED <<r_k, r_obtained>>
    /\ UNCHANGED <<RunFrame, r_persona, r_idx, r_saved>>

\* lines 37 and 56, save_results (9-17): one file per (persona, model); its
\* name ends in the time of day, which no other batch of the run shares a
\* persona and a model with
RunSave ==
    /\ rpc = "save"
    /\ r_saved' = r_saved \cup {[persona |-> PersonaName, model |-> Models[r_idx],
                                 results |-> r_results]}
    /\ rpc' = "sleep"
    /\ UNCHANGED <<RunFrame, r_persona, r_idx, r_k, r_results, r_obtained>>

\* lines 42-44 and 61-63: wait between LLMs, then the next model
RunSleep ==
    /\ rpc = "sleep"
    /\ r_k' = 0 /\ r_results' = <<>>
    /\ IF r_idx < Len(Models)
       THEN r_idx' = r_idx + 1 /\ rpc' = "batch"
       ELSE rpc' = "persona" /\ UNCHANGED r_idx
    /\ UNCHANGED <<RunFrame, r_persona, r_saved, r_obtained>>

\* An operator interrupt while run_batch or the sleep is awaited: it leaves
\* run_persona, main prints and cleans up (lines 122-131)
RunInterrupt ==
    /\ rpc \in {"batch", "sleep"}
    /\ rpc' = "interrupted"
    /\ UNCHANGED <<RunFrame, r_persona, r_idx, r_k, r_results, r_saved,
                   r_obtained>>

InitRun ==
    /\ llms \in ProviderLists
    /\ fs_profiles = Providers /\ fs_state = Providers
    /\ delay = DefaultDelay
    /\ files = {} /\ now = 0 /\ page = <<>>
    /\ TestIdle /\ CallIdle /\ SetupIdle
    /\ bmain = "off" /\ bi = 0 /\ all_results = <<>> /\ summary_file = <<>>
    /\ bpc = "idle" /\ honeypots = <<>> /\ total_prompts = 0
    /\ success_count = 0 /\ failed_count = 0 /\ hp_idx = 0 /\ p_idx = 0
    /\ response = NoneResp /\ exc = "none" /\ page_alive = FALSE
    /\ ctx = "none" /\ bresult = <<>> /\ log = <<>> /\ invoked = <<>>
    /\ data = MappingFile
    /\ rpc = "persona" /\ r_persona = 0 /\ r_idx = 0 /\ r_k = 0
    /\ r_results = <<>> /\ r_saved = {} /\ r_obtained = {}

NextRun ==
    \/ RunNextPersona \/ RunBatchStep \/ RunSave \/ RunSleep \/ RunInterrupt

SpecRun == InitRun /\ [][NextRun]_vars

\* C8: when a run is aborted mid-batch, every result obtained before the
\* abort is persisted: no result of a (persona, model) batch that was partly
\* completed when the abort happened is lost.
C8_AbortKeepsResults ==
    rpc \in {"interrupted", "done"} =>
        \A o \in r_obtained :
            \E f \in r_saved :
                /\ f.persona = o.persona /\ f.model = o.model
                /\ \E i \in DOMAIN f.results : f.results[i] = o.prompt

---------------------------------------------------------------------------
(* find_input, src/llm_runner.py 31-68 *)

\* lines 44-50
candidates == << "textarea", "div[contenteditable='true']", "input[type='text']",
                 "[aria-label*='message' i]", "#prompt-textarea" >>
\* fr.get_by_role("textbox")
Textbox == "role=textbox"
\* a selector of a profile (input_selector, submit_selector) that is none of
\* the built-in ones; None when the profile has no such key
ProfileHint == "#composer"
None == "None"
Queries == {Textbox, ProfileHint} \cup {candidates[k] : k \in DOMAIN candidates}

\* The most frames of a modelled page
MaxFrames == 2
\* A frame is known by the queries that have a visible match in it
VisibleSets == {v \in SUBSET Queries : Cardinality(v) <= 2}
\* page.frames lists the main frame first and the nested frames after it
FramePages ==
    { [main_frame |-> 1, frames |-> fs] :
        fs \in UNION {[1..n -> VisibleSets] : n \in 1..MaxFrames} }

\* a traversal that reads the nested frames before the main one
frames_nested_first(pg) ==
    SelectSeq([i \in DOMAIN pg.frames |-> i], LAMBDA f : f # pg.main_frame)
        \o <<pg.main_frame>>
\* lines 31-36
frames_in_read_order(pg) ==
    <<pg.main_frame>>
        \o SelectSeq([i \in DOMAIN pg.frames |-> i], LAMBDA f : f # pg.main_frame)

\* wait_for(state="visible", timeout=...): the locator, or a timeout
Visible(pg, fr, query) == query \in pg.frames[fr]
Located(fr, query, waits) ==
    [found |-> TRUE, frame |-> fr, query |-> query, waits |-> waits]
NotLocated(waits) ==
    [found |-> FALSE, frame |-> 0, query |-> None, waits |-> waits]

\* lines 59-65: the candidates of one frame, from the k-th on; waits is the
\* list of the waits made so far
RECURSIVE TrySelectors(_, _, _, _)
TrySelectors(pg, fr, k, waits) ==
    IF k > Len(candidates) THEN NotLocated(waits)
    ELSE LET w == Append(waits, [frame |-> fr, query |-> candidates[k]])
         IN  IF Visible(pg, fr, candidates[k])
             THEN Located(fr, candidates[k], w)
             ELSE TrySelectors(pg, fr, k + 1, w)

\* lines 52-67: the frames still to read; when none is left, RuntimeError
RECURSIVE TryFrames(_, _, _)
TryFrames(pg, frs, waits) ==
    IF frs = <<>> THEN NotLocated(waits)
    ELSE LET fr == Head(frs)
             w  == Append(waits, [frame |-> fr, query |-> Textbox])
         IN  IF Visible(pg, fr, Textbox) THEN Located(fr, Textbox, w)
             ELSE LET r == TrySelectors(pg, fr, 1, w)
                  IN  IF r.found THEN r ELSE TryFrames(pg, Tail(frs), r.waits)

\* input_selector is a parameter the body never reads
find_input(pg, input_selector) == TryFrames(pg, frames_in_read_order(pg), <<>>)

---------------------------------------------------------------------------
(* send_prompt, lines 133-143: what it does to the page to submit *)

\* the profiles' selectors: beta names its own, alpha has none
input_selector(name)  == IF name = beta THEN ProfileHint ELSE None
submit_selector(name) == IF name = beta THEN ProfileHint ELSE None

\* lines 135-143: click the input, type, Enter three times; nothing when the
\* input was not found
send_prompt_actions(name, env) ==
    IF env.input
    THEN << "click input", "type", "press Enter", "press Enter", "press Enter" >>
    ELSE << >>

\* lines 135-151, with the pauses and the read: every call made on the page
\* once the input is located
send_prompt_events_read_early(name, env) ==
    IF env.input
    THEN << [op |-> "click", ms |-> 0],
            [op |-> "keyboard.type", ms |-> 0],
            [op |-> "wait_for_timeout", ms |-> SettleMs],
            [op |-> "press Enter", ms |-> 0],
            [op |-> "wait_for_timeout", ms |-> PressMs],
            [op |-> "press Enter", ms |-> 0],
            [op |-> "inner_text", ms |-> 0],
            [op |-> "wait_for_timeout", ms |-> PressMs],
            [op |-> "press Enter", ms |-> 0],
            [op |-> "wait_for_timeout", ms |-> wait_time(name)] >>
    ELSE << >>
send_prompt_events(name, env) ==
    IF env.input
    THEN << [op |-> "click", ms |-> 0],
            [op |-> "keyboard.type", ms |-> 0],
            [op |-> "wait_for_timeout", ms |-> SettleMs],
            [op |-> "press Enter", ms |-> 0],
            [op |-> "wait_for_timeout", ms |-> PressMs],
            [op |-> "press Enter", ms |-> 0],
            [op |-> "wait_for_timeout", ms |-> PressMs],
            [op |-> "press Enter", ms |-> 0],
            [op |-> "wait_for_timeout", ms |-> wait_time(name)],
            [op |-> "inner_text", ms |-> 0] >>
    ELSE << >>

\* The most response elements a page shows before the call
MaxOldReplies == 2
OldElements == { OldReply,
                 [reply_to |-> <<0, 0>>, text |-> <<"a", "a">>],
                 [reply_to |-> <<0, 0>>, text |-> <<"a">>] }
TranscriptPages == UNION {[1..n -> OldElements] : n \in 0..MaxOldReplies}

\* Which branch of send_prompt a call ends in
Outcome(pg, env) ==
    IF ~env.input THEN "input not found"                 \* line 67, caught at 161
    ELSE LET after == PageAfterWait(pg, <<1, 1>>, env)
         IN  IF after = <<>> THEN "response not found"   \* line 151 times out
             ELSE IF Len(Strip(after[Len(after)].text)) <= 1
             THEN "empty response"                       \* lines 157-159
             ELSE "text"                                 \* lines 153-156

---------------------------------------------------------------------------
(* The three shapes of the prompts file, lines 286-299 *)

PersonaNames == {P1, P2, HoneypotsKey}
PromptLists  == {SubSeq(PromptTexts, 1, n) : n \in 0..MaxPrompts}
\* The most personas of a modelled file
MaxPersonas == 2
\* a file's content: personas with different names, each with its prompts
Contents ==
    { c \in UNION {[1..n -> [name : PersonaNames, prompts : PromptLists]]
                      : n \in 0..MaxPersonas} :
        \A i, j \in DOMAIN c : c[i].name = c[j].name => i = j }

\* {"persona_name": ["prompt1", ...], ...}
AsMapping(c) ==
    Dict([i \in DOMAIN c |-> [key |-> c[i].name, val |-> PromptList(c[i].prompts)]])
\* {"honeypots": [{"name": "...", "prompts": [...]}, ...]}
AsHoneypots(c) ==
    Dict(<< [key |-> HoneypotsKey,
             val |-> EntryList([i \in DOMAIN c |-> Entry(c[i].name, c[i].prompts)])] >>)
\* [{"name": "...", "prompts": [...]}, ...]
AsList(c) ==
    List([i \in DOMAIN c |-> Entry(c[i].name, c[i].prompts)])

\* lines 286-302 for one file: the honeypots and the total, or the raise
Load(d) ==
    LET parsed == ParseHoneypots(d)
    IN  [status |-> parsed.status, honeypots |-> parsed.hps,
         total |-> TotalPrompts(parsed.hps)]

---------------------------------------------------------------------------
(* One call of clean_text, find_input, send_prompt or the file reading *)

\* The longest text clean_text is applied to
MaxTextLen == 4
TextChars == {"a", "b", "SP", "NL", "EACUTE", "EMOJI", "NBSP"}
\* "Hi <emoji> there\n\n  now", a letter for a word
ExampleText == <<"h", "SP", "EMOJI", "SP", "a", "NL", "NL", "SP", "SP", "b">>
Texts == UNION {[1..n -> TextChars] : n \in 0..MaxTextLen} \cup {ExampleText}

Pending     == [done |-> FALSE]
Returned(v) == [done |-> TRUE, val |-> v]

CallCleanText ==
    /\ fn = "clean_text" /\ ~out.done
    /\ out' = Returned(clean_text(arg))
    /\ UNCHANGED <<llms, delay, fs_profiles, fs_state, fn, arg, files, now, page,
                   testVars, batchVars, runVars, setupVars>>

CallFindInput ==
    /\ fn = "find_input" /\ ~out.done
    /\ out' = Returned(find_input(arg.page, arg.input_selector))
    /\ UNCHANGED <<llms, delay, fs_profiles, fs_state, fn, arg, files, now, page,
                   testVars, batchVars, runVars, setupVars>>

CallSendPrompt ==
    /\ fn = "send_prompt" /\ ~out.done
    /\ out' = Returned([response |-> send_prompt(arg.page, <<1, 1>>, arg.env),
                        actions  |-> send_prompt_actions(arg.llm, arg.env),
                        events   |-> send_prompt_events(arg.llm, arg.env)])
    /\ UNCHANGED <<llms, delay, fs_profiles, fs_state, fn, arg, files, now, page,
                   testVars, batchVars, runVars, setupVars>>

CallLoad ==
    /\ fn = "load" /\ ~out.done
    /\ out' = Returned([mapping   |-> Load(AsMapping(arg)),
                        honeypots |-> Load(AsHoneypots(arg)),
                        list      |-> Load(AsList(arg))])
    /\ UNCHANGED <<llms, delay, fs_profiles, fs_state, fn, arg, files, now, page,
                   testVars, batchVars, runVars, setupVars>>

InitCall ==
    /\ llms = <<alpha, beta>> /\ delay = DefaultDelay
    /\ fs_profiles = Providers /\ fs_state = Providers
    /\ files = {} /\ now = 0 /\ page = <<>>
    /\ TestIdle /\ BatchIdle /\ RunIdle /\ SetupIdle
    /\ out = Pending
    /\ \/ fn = "clean_text" /\ arg \in Texts
       \/ fn = "find_input"
          /\ arg \in [page : FramePages, input_selector : {None, ProfileHint}]
       \/ fn = "send_prompt"
          /\ arg \in [llm : Providers, page : TranscriptPages, env : SendEnvs]
       \/ fn = "load" /\ arg \in Contents

NextCall == CallCleanText \/ CallFindInput \/ CallSendPrompt \/ CallLoad

SpecCall == InitCall /\ [][NextCall]_vars

---------------------------------------------------------------------------
(* Claims about send_prompt, find_input, the prompts file and clean_text *)

\* C12: the failure kinds of an interaction reach the caller of send_prompt as
\* different values: two calls that end in different branches (input not
\* found, response region not found, empty response, text) never return the
\* same thing.
C12_FailureKindsDistinct ==
    (fn = "send_prompt" /\ out.done) =>
        \A e \in SendEnvs :
            Outcome(arg.page, e) # Outcome(arg.page, arg.env)
                => send_prompt(arg.page, <<1, 1>>, e) # out.val.response

\* C13: send_prompt returns text exactly when the normalized text of the
\* response region has at least two characters; when that text is empty or a
\* single character it returns nothing the caller counts as a response.
C13_EmptyWhenNormalizedShort ==
    (fn = "send_prompt" /\ out.done /\ arg.env.input) =>
        LET after == PageAfterWait(arg.page, <<1, 1>>, arg.env)
        IN  after # <<>> =>
                ( Truthy(out.val.response)
                    <=> Len(clean_text(after[Len(after)].text)) >= 2 )

\* The candidates of a page in priority order: the main frame's before those
\* of the nested frames (in page order); in a frame the textbox role, then the
\* literal selectors in list order
PriorityOrder(pg) ==
    LET nested  == SelectSeq([i \in DOMAIN pg.frames |-> i],
                             LAMBDA f : f # pg.main_frame)
        perFrame == 1 + Len(candidates)
        frameAt(j) == IF j = 1 THEN pg.main_frame ELSE nested[j - 1]
    IN  [i \in 1..(Len(pg.frames) * perFrame) |->
            [frame |-> frameAt((i - 1) \div perFrame + 1),
             query |-> IF (i - 1) % perFrame = 0 THEN Textbox
                       ELSE candidates[(i - 1) % perFrame]]]

\* C15: find_input returns the first candidate in priority order that is
\* visible; every candidate before it was waited for once and timed out, no
\* candidate after it was waited for; it raises exactly when no candidate of
\* any frame is visible, after one wait for each.
C15_FirstVisibleInPriorityOrder ==
    (fn = "find_input" /\ out.done) =>
        LET order == PriorityOrder(arg.page)
            vis   == {i \in DOMAIN order :
                         Visible(arg.page, order[i].frame, order[i].query)}
            r     == out.val
        IN  /\ r.found <=> vis # {}
            /\ r.found =>
                 \E i \in vis :
                    /\ \A j \in vis : i <= j
                    /\ r.frame = order[i].frame /\ r.query = order[i].query
                    /\ r.waits = SubSeq(order, 1, i)
            /\ ~r.found => r.waits = order

C15_Witness ==
    /\ fn = "find_input" /\ out.done /\ out.val.found
    /\ out.val.frame = 2 /\ out.val.query = candidates[2]
    /\ candidates[3] \in arg.page.frames[2]
    /\ Len(out.val.waits) = Len(candidates) + 4

\* C16: the literal selectors find_input falls back to include the profile's
\* input_selector: an input that is visible under that selector is found.
C16_ProfileHintIsTried ==
    (fn = "find_input" /\ out.done /\ arg.input_selector # None) =>
        ( (\E fr \in DOMAIN arg.page.frames :
               Visible(arg.page, fr, arg.input_selector))
          => out.val.found )

\* C17: for a profile with a submit_selector, send_prompt submits by clicking
\* that element and presses no key.
C17_SubmitHintIsClicked ==
    (fn = "send_prompt" /\ out.done /\ arg.env.input
        /\ submit_selector(arg.llm) # None) =>
        /\ \E i \in DOMAIN out.val.actions : out.val.actions[i] = "click submit"
        /\ \A i \in DOMAIN out.val.actions : out.val.actions[i] # "press Enter"

\* C18: the same personas and prompts written as a mapping, as an object with
\* a honeypots list, or as a bare list give the same honeypots, in the same
\* order, and the same total.
C18_ShapesEquivalent ==
    (fn = "load" /\ out.done) =>
        /\ out.val.list.status = "ok"
        /\ out.val.list.honeypots = arg
        /\ out.val.honeypots = out.val.list
        /\ out.val.mapping = out.val.list

\* C19: clean_text is idempotent.
C19_CleanTextIdempotent ==
    (fn = "clean_text" /\ out.done) => clean_text(out.val) = out.val

C19_Witness ==
    /\ fn = "clean_text" /\ out.done
    /\ arg = <<"a", "SP", "EACUTE", "SP">>
    /\ out.val = <<"a">>

\* The characters clean_text keeps, and where they are
KeptPos(t)     == {i \in DOMAIN t : t[i] \in Ascii \ Space}
NonSpacePos(o) == {i \in DOMAIN o : o[i] \notin Space}
Rank(S, i)     == Cardinality({k \in S : k <= i})
Between(t, i, j, W) == \E k \in (i + 1)..(j - 1) : t[k] \in W

\* What C20 says of every output: ASCII only, no white space at either end,
\* no white space but single spaces, the ASCII characters that are no white
\* space kept in order
CleanShape(t, o) ==
    /\ \A i \in DOMAIN o : o[i] \in Ascii
    /\ o # <<>> => (o[1] \notin Space /\ o[Len(o)] \notin Space)
    /\ \A i \in DOMAIN o :
          o[i] \in Space => (o[i] = "SP" /\ (i < Len(o) => o[i + 1] \notin Space))
    /\ SelectSeq(o, LAMBDA c : c \notin Space)
          = SelectSeq(t, LAMBDA c : c \in Ascii \ Space)

\* Two kept characters of t with a character of W between them have a space
\* between them in o
WordsKeptApart(t, o, W) ==
    \A i, j \in KeptPos(t) :
        (i < j /\ Between(t, i, j, W)) =>
            \A p, q \in NonSpacePos(o) :
                ( /\ Rank(NonSpacePos(o), p) = Rank(KeptPos(t), i)
                  /\ Rank(NonSpacePos(o), q) = Rank(KeptPos(t), j) )
                => Between(o, p, q, {"SP"})

\* C20, as claimed: the output has the shape above, and words separated by
\* white space in the input are separated by one space in the output.
C20_WordsStaySeparated ==
    (fn = "clean_text" /\ out.done) =>
        /\ CleanShape(arg, out.val)
        /\ WordsKeptApart(arg, out.val, Space)

\* C20, amended: the output has the shape above, and words separated by ASCII
\* white space in the input are separated by one space in the output.
C20_AsciiSeparatedWordsStaySeparated ==
    (fn = "clean_text" /\ out.done) =>
        /\ CleanShape(arg, out.val)
        /\ WordsKeptApart(arg, out.val, AsciiSpace)

C20_Witness ==
    /\ fn = "clean_text" /\ out.done
    /\ arg = ExampleText
    /\ out.val = <<"h", "SP", "a", "SP", "b">>

\* C21: send_prompt reads the last element the response selector matches and
\* no other: on any two pages whose last matching element is the same, it
\* returns the same thing, whatever the earlier matches hold.
C21_OnlyLastElementRead ==
    (fn = "send_prompt" /\ out.done /\ arg.env.input) =>
        LET after == PageAfterWait(arg.page, <<1, 1>>, arg.env)
        IN  after # <<>> =>
            /\ out.val.response.some => out.val.response.src = after[Len(after)].reply_to
            /\ \A pg2 \in TranscriptPages :
                  LET after2 == PageAfterWait(pg2, <<1, 1>>, arg.env)
                  IN  (after2 # <<>> /\ after2[Len(after2)] = after[Len(after)])
                      => send_prompt(pg2, <<1, 1>>, arg.env) = out.val.response

C21_Witness ==
    /\ fn = "send_prompt" /\ out.done /\ arg.env.input /\ arg.env.rendered
    /\ Len(arg.page) = 2 /\ arg.page[1].text = <<"a", "a">>
    /\ arg.page[2].text = <<"b", "b">>
    /\ out.val.response.some /\ out.val.response.text = <<"a", "SP", "b">>
    /\ out.val.response.src = <<1, 1>>

\* The events of a call that are a press of the trigger key, a read
Presses(ev) == {i \in DOMAIN ev : ev[i].op = "press Enter"}
Reads(ev)   == {i \in DOMAIN ev : ev[i].op = "inner_text"}
Pauses(ev)  == {i \in DOMAIN ev : ev[i].op = "wait_for_timeout"}

\* C25: when the input is located the page sees, in this order: the click, the
\* prompt typed on the keyboard, a settling pause, the trigger key more than
\* once with a pause between presses, one wait of wait_time, one read of the
\* response region; the prompt is never assigned programmatically.
C25_SubmissionProtocol ==
    (fn = "send_prompt" /\ out.done /\ arg.env.input) =>
        LET ev == out.val.events
            first == CHOOSE i \in Presses(ev) : \A j \in Presses(ev) : i <= j
            last  == CHOOSE i \in Presses(ev) : \A j \in Presses(ev) : j <= i
        IN  /\ Cardinality(Presses(ev)) > 1
            /\ ev[1].op = "click" /\ ev[2].op = "keyboard.type"
            /\ \A i \in DOMAIN ev : ev[i].op \notin {"fill", "evaluate"}
            /\ first = 4 /\ 3 \in Pauses(ev) /\ ev[3].ms > 0
            /\ \A i, j \in Presses(ev) :
                  i < j => \E k \in Pauses(ev) : i < k /\ k < j /\ ev[k].ms > 0
            /\ Reads(ev) = {Len(ev)}
            /\ {k \in Pauses(ev) : k > last} = {Len(ev) - 1}
            /\ ev[Len(ev) - 1].ms = wait_time(arg.llm)

C25_Witness ==
    /\ fn = "send_prompt" /\ out.done /\ arg.env.input /\ arg.llm = beta
    /\ Len(out.val.events) = 10
    /\ out.val.events[9] = [op |-> "wait_for_timeout", ms |-> 1000]
    /\ out.val.events[10].op = "inner_text"

---------------------------------------------------------------------------
(* llm_runner.py setup / setup-all: main 380-401 and cmd_setup 96-127 *)

\* args.name when --name is not given
NoName == << >>
\* a name no provider has
gamma == <<"h">>

\* An entry of playwright_llms: the provider's dict (its other keys are
\* carried along unchanged)
ConfigEntry(n, dir) == [name |-> n, profile_dir |-> dir]
Configs ==
    { [i \in DOMAIN names |-> ConfigEntry(names[i], dirs[i])] :
        names \in ProviderLists, dirs \in [1..2 -> {"unset", "set"}] }

\* lines 380-390: load the configuration, keep the providers named --name
SetupLoad ==
    /\ spc = "start"
    /\ LET selected == IF args_name # NoName
                       THEN SelectSeq(cfg, LAMBDA x : x.name = args_name)
                       ELSE cfg
       IN  /\ llms' = selected
           /\ spc' = IF args_name # NoName /\ selected = <<>> THEN "done"
                     ELSE "loop"
    /\ s_i' = 0 /\ updated' = <<>>
    /\ UNCHANGED <<delay, fs_profiles, fs_state, callVars, cfg, cfg0, args_name,
                   heap, replaced, save_answer, files, now, page, testVars,
                   batchVars, runVars>>

\* lines 393-396 and cmd_setup: the profile directory is made, the browser
\* launched, the operator logs in, the state is stored; what raises on the
\* way (launch, goto, an interrupt at input()) is caught nowhere
SetupProvider ==
    /\ spc = "loop" /\ s_i < Len(llms)
    /\ LET llm == llms[s_i + 1]
       IN  /\ fs_profiles' = fs_profiles \cup {llm.name}
           /\ \E outcome \in {"ok", "launch", "goto", "interrupt"} :
                 IF outcome = "ok"
                 THEN /\ fs_state' = fs_state \cup {llm.name}
                      /\ updated' = Append(updated, [llm EXCEPT !.profile_dir = "set"])
                      /\ s_i' = s_i + 1
                      /\ UNCHANGED spc
                 ELSE /\ spc' = "raised"
                      /\ UNCHANGED <<fs_state, updated, s_i>>
    /\ UNCHANGED <<llms, delay, callVars, cfg, cfg0, args_name, heap, replaced,
                   save_answer, files, now, page, testVars, batchVars, runVars>>

\* lines 398-401: cfg["playwright_llms"] = updated, and the file is rewritten
SetupWrite ==
    /\ spc = "loop" /\ s_i = Len(llms)
    /\ cfg' = updated
    /\ spc' = "done"
    /\ UNCHANGED <<llms, delay, fs_profiles, fs_state, callVars, s_i, cfg0,
                   args_name, updated, heap, replaced, save_answer, files, now,
                   page, testVars, batchVars, runVars>>

InitSetup ==
    /\ cfg \in Configs /\ cfg0 = cfg
    /\ args_name \in {NoName, alpha, beta, gamma}
    /\ fs_profiles \in SUBSET Providers /\ fs_state \in {fs_profiles, {}}
    /\ llms = <<>> /\ delay = DefaultDelay
    /\ spc = "start" /\ s_i = 0 /\ updated = <<>> /\ heap = <<>>
    /\ replaced = {} /\ save_answer = "not asked"
    /\ files = {} /\ now = 0 /\ page = <<>>
    /\ TestIdle /\ BatchIdle /\ RunIdle /\ CallIdle

NextSetup == SetupLoad \/ SetupProvider \/ SetupWrite

SpecSetup == InitSetup /\ [][NextSetup]_vars

\* C27: setup --name X leaves the entries of the other providers as they
\* were: the rewritten configuration lists the same providers in the same
\* order, and only X's entry may differ.
C27_OtherProvidersKept ==
    (spc = "done" /\ args_name # NoName) =>
        /\ Len(cfg) = Len(cfg0)
        /\ \A i \in DOMAIN cfg :
              /\ cfg[i].name = cfg0[i].name
              /\ cfg[i].name # args_name => cfg[i] = cfg0[i]

---------------------------------------------------------------------------
(* setup_cookies.py: main (201-271) and save_cookies_for_llm (109-198) *)

\* the keys of test_selectors' result (lines 10-14)
SelectorKinds == {"input", "submit", "response"}
Configured == "configured"          \* a selector as config.yaml has it
Found      == "found"               \* one find_selector_interactive returned
\* find_selector_interactive returned None
Skipped    == "skipped"

\* An entry of playwright_llms with its three selectors
CookieEntry(n) == [name |-> n, selectors |-> [k \in SelectorKinds |-> Configured]]
CookieConfigs == { [i \in DOMAIN names |-> CookieEntry(names[i])] :
                      names \in ProviderLists }

\* sum(results.values())
Working(res) == Cardinality({k \in SelectorKinds : res[k]})

\* lines 214-231: yaml.safe_load makes one dict per provider; llms is the list
\* of these dicts, by reference
CookiesLoad ==
    /\ spc = "start"
    /\ heap' = cfg
    /\ llms' = [i \in DOMAIN cfg |-> i]
    /\ updated' = <<>> /\ s_i' = 0
    /\ spc' = "loop"
    /\ UNCHANGED <<delay, fs_profiles, fs_state, callVars, cfg, cfg0, args_name,
                   replaced, save_answer, files, now, page, testVars, batchVars,
                   runVars>>

\* lines 229-231 and save_cookies_for_llm: the selectors are tested; if some
\* fail and the operator wants, new ones are looked for in a copy of the dict
\* and tested; if more of them work, llm_config.update(new_config) changes the
\* dict that was passed in, and that same dict is returned
CookiesSaveForLlm ==
    /\ spc = "loop" /\ s_i < Len(llms)
    /\ LET llm_config == llms[s_i + 1]
       IN  \E test_results \in [SelectorKinds -> BOOLEAN], fix \in {"y", "n"},
              search \in [SelectorKinds -> {Found, Skipped}],
              found_works \in [SelectorKinds -> BOOLEAN] :
              LET new_config ==
                      [k \in SelectorKinds |->
                          IF ~test_results[k] /\ search[k] = Found THEN Found
                          ELSE heap[llm_config].selectors[k]]
                  new_results ==
                      [k \in SelectorKinds |->
                          IF new_config[k] # heap[llm_config].selectors[k]
                          THEN found_works[k] ELSE test_results[k]]
                  better ==
                      /\ \E k \in SelectorKinds : ~test_results[k]
                      /\ fix = "y"
                      /\ Working(new_results) > Working(test_results)
              IN  /\ heap' = IF better
                             THEN [heap EXCEPT ![llm_config].selectors = new_config]
                             ELSE heap
                  /\ replaced' = IF better
                                 THEN replaced \cup {heap[llm_config].name}
                                 ELSE replaced
                  /\ updated' = Append(updated, llm_config)
    \* lines 192-193: context.storage_state(path=cookie_file)
    /\ fs_state' = fs_state \cup {heap[llms[s_i + 1]].name}
    /\ s_i' = s_i + 1
    /\ UNCHANGED <<llms, delay, fs_profiles, callVars, spc, cfg, cfg0, args_name,
                   save_answer, files, now, page, testVars, batchVars, runVars>>

\* lines 233-260: compare each dict of llms with what the call returned for
\* it; when one differs, ask, and write the file if the answer is y
CookiesFinish ==
    /\ spc = "loop" /\ s_i = Len(llms)
    /\ LET config_changed ==
               \E i \in DOMAIN llms : heap[llms[i]] # heap[updated[i]]
       IN  IF config_changed
           THEN \E save \in {"y", "n"} :
                   /\ save_answer' = save
                   /\ cfg' = IF save = "y"
                             THEN [i \in DOMAIN updated |-> heap[updated[i]]]
                             ELSE cfg
           ELSE UNCHANGED <<save_answer, cfg>>
    /\ spc' = "done"
    /\ UNCHANGED <<llms, delay, fs_profiles, fs_state, callVars, s_i, cfg0,
                   args_name, updated, heap, replaced, files, now, page,
                   testVars, batchVars, runVars>>

InitCookies ==
    /\ cfg \in CookieConfigs /\ cfg0 = cfg
    /\ args_name = NoName
    /\ fs_profiles = {} /\ fs_state \in SUBSET Providers
    /\ llms = <<>> /\ delay = DefaultDelay
    /\ spc = "start" /\ s_i = 0 /\ updated = <<>> /\ heap = <<>>
    /\ replaced = {} /\ save_answer = "not asked"
    /\ files = {} /\ now = 0 /\ page = <<>>
    /\ TestIdle /\ BatchIdle /\ RunIdle /\ CallIdle

NextCookies == CookiesLoad \/ CookiesSaveForLlm \/ CookiesFinish

SpecCookies == InitCookies /\ [][NextCookies]_vars

\* C28: when save_cookies_for_llm replaced a selector of some provider, main
\* asks whether to save; config.yaml holds the updated selectors exactly when
\* the answer was y, and is as it was when the answer was n.
C28_ReplacedSelectorsOffered ==
    (spc = "done" /\ replaced # {}) =>
        /\ save_answer # "not asked"
        /\ save_answer = "y" => cfg = [i \in DOMAIN updated |-> heap[updated[i]]]
        /\ save_answer = "n" => cfg = cfg0

====
